---- MODULE Spec2Model ----
(***************************************************************************)
(* The question-generation workflow of src/workflow/                       *)
(* test_generation_workflow.py: a graph of two nodes, generate and         *)
(* validate, with a conditional edge from validate back to generate or to  *)
(* END, run by generate_test on a WorkflowState it builds.                 *)
(*                                                                         *)
(* The graph engine is modelled by the edges create_workflow declares: the *)
(* entry node runs first, each node receives the state, the edge out of    *)
(* generate leads to validate, and should_continue routes out of validate. *)
(* The WorkflowState the nodes update is the one generate_test reads when  *)
(* the graph has ended, as generate_test presupposes.                      *)
(*                                                                         *)
(* Both nodes and should_continue catch or avoid every exception (the      *)
(* outer handler of generate_single_question, lines 208-210, takes what    *)
(* the LLM call, the parser and the validator raise), so no node failure   *)
(* reaches the handler around ainvoke in generate_test.                    *)
(*                                                                         *)
(* A Python string is a sequence of symbols: one-character strings where   *)
(* the code looks at characters (strip, lower, endswith, len), and whole   *)
(* words where it does not (field names, prose).  A completion text is a   *)
(* sequence of tokens: punctuation, quoted strings, bare words, code       *)
(* fences, spaces and newlines.  Quoted strings hold no braces, quotes or  *)
(* newlines, so the regular expressions of extract_json see the text as    *)
(* its tokens.  A value decoded from JSON carries its Python type.         *)
(*                                                                         *)
(* Around the workflow: the key its constructor reads from the             *)
(* environment, the list services/test_generation_service.py makes of a    *)
(* result, what pages/test_generation.py shows for that list, and the      *)
(* test set files and their index kept by                                  *)
(* services/file_storage_service.py.                                       *)
(***************************************************************************)
EXTENDS Integers, Sequences, FiniteSets, TLC

\* ------------------------------------------------------------------ bounds

\* Largest num_questions a run is started with.
MaxTarget == 3

\* ------------------------------------------------------------- python values

\* Python's None, a record so that it compares with the dicts it stands in for.
None == [py |-> "None"]

\* A str, a dict (a function from key strings to values), and the other
\* values json.loads returns: numbers, true, false and null, kept as written.
PyStr(s) == [str |-> s]
PyDict(d) == [dict |-> d]
PyLit(w) == [lit |-> w]

IsStr(x) == DOMAIN x = {"str"}
IsDict(x) == DOMAIN x = {"dict"}
IsLit(x) == DOMAIN x = {"lit"}

EmptyDict == [k \in {} |-> None]

\* bool(x): empty strings and dicts, null, false and 0 are false.
Truthy(x) ==
    IF IsStr(x) THEN x.str # <<>>
    ELSE IF IsDict(x) THEN DOMAIN x.dict # {}
    ELSE x.lit \notin {<<"null">>, <<"false">>, <<"0">>}

Whitespace == {" ", "\n"}

RECURSIVE LStrip(_)
LStrip(s) ==
    IF s # <<>> /\ Head(s) \in Whitespace THEN LStrip(Tail(s)) ELSE s

RECURSIVE RStrip(_)
RStrip(s) ==
    IF s # <<>> /\ s[Len(s)] \in Whitespace
    THEN RStrip(SubSeq(s, 1, Len(s) - 1))
    ELSE s

\* str.strip()
Strip(s) == RStrip(LStrip(s))

LowerChar(c) ==
    CASE c = "A" -> "a"
      [] c = "B" -> "b"
      [] OTHER -> c

\* str.lower()
Lower(s) == [i \in 1..Len(s) |-> LowerChar(s[i])]

\* str.endswith(c) for a one-character suffix
EndsWith(s, c) == s # <<>> /\ s[Len(s)] = c

\* str.startswith(c) for a one-character prefix
StartsWith(s, c) == s # <<>> /\ s[1] = c

\* ------------------------------------------------------------- completion texts

Sym(c) == [t |-> "sym", v |-> <<c>>]
Quoted(s) == [t |-> "str", v |-> s]
Word(w) == [t |-> "word", v |-> <<w>>]
\* A code fence: three backquote characters, each written BACKTICK.
Fence == [t |-> "fence", v |-> <<"BACKTICK", "BACKTICK", "BACKTICK">>]
SP == [t |-> "ws", v |-> <<" ">>]
NL == [t |-> "ws", v |-> <<"\n">>]

\* The words json.loads takes as values.
JsonLiterals == {"true", "false", "null", "0", "42"}

\* The characters of a token, and of a text.
TokenChars(tok) ==
    IF tok.t = "str" THEN <<"\"">> \o tok.v \o <<"\"">> ELSE tok.v

RECURSIVE TextChars(_)
TextChars(toks) ==
    IF toks = <<>> THEN <<>> ELSE TokenChars(Head(toks)) \o TextChars(Tail(toks))

RECURSIVE LStripTokens(_, _)
LStripTokens(toks, drop) ==
    IF toks # <<>> /\ drop[Head(toks)] THEN LStripTokens(Tail(toks), drop) ELSE toks

RECURSIVE RStripTokens(_, _)
RStripTokens(toks, drop) ==
    IF toks # <<>> /\ drop[toks[Len(toks)]]
    THEN RStripTokens(SubSeq(toks, 1, Len(toks) - 1), drop)
    ELSE toks

\* text.strip() and text.strip(",") on tokens
StripText(toks) ==
    LET ws == [tok \in {toks[i] : i \in 1..Len(toks)} |-> tok.t = "ws"] IN
    RStripTokens(LStripTokens(toks, ws), ws)

IsComma(tok) == tok = Sym(",")

StripCommas(toks) ==
    LET cm == [tok \in {toks[i] : i \in 1..Len(toks)} |-> IsComma(tok)] IN
    RStripTokens(LStripTokens(toks, cm), cm)

RStripCommas(toks) ==
    LET cm == [tok \in {toks[i] : i \in 1..Len(toks)} |-> IsComma(tok)] IN
    RStripTokens(toks, cm)

\* ------------------------------------------------------------------ json.loads

\* The first index from i on that holds no whitespace (Len + 1 if none).
RECURSIVE SkipWs(_, _)
SkipWs(toks, i) ==
    IF i <= Len(toks) /\ toks[i].t = "ws" THEN SkipWs(toks, i + 1) ELSE i

JsonFail == [ok |-> FALSE, val |-> None, next |-> 0]

RECURSIVE ParseValue(_, _)
RECURSIVE ParseMember(_, _, _)

\* The members of an object from the key at k on; acc holds those read.
ParseMember(toks, k, acc) ==
    IF k > Len(toks) \/ toks[k].t # "str" THEN JsonFail
    ELSE LET c == SkipWs(toks, k + 1) IN
         IF c > Len(toks) \/ toks[c] # Sym(":") THEN JsonFail
         ELSE LET r == ParseValue(toks, c + 1) IN
              IF ~r.ok THEN JsonFail
              ELSE LET key == toks[k].v
                       more == [x \in DOMAIN acc \cup {key} |->
                                  IF x = key THEN r.val ELSE acc[x]]
                       e == SkipWs(toks, r.next)
                   IN  IF e > Len(toks) THEN JsonFail
                       ELSE IF toks[e] = Sym("}")
                       THEN [ok |-> TRUE, val |-> PyDict(more), next |-> e + 1]
                       ELSE IF toks[e] = Sym(",")
                       THEN ParseMember(toks, SkipWs(toks, e + 1), more)
                       ELSE JsonFail

\* The JSON value that starts at i (after whitespace).
ParseValue(toks, i) ==
    LET j == SkipWs(toks, i) IN
    IF j > Len(toks) THEN JsonFail
    ELSE IF toks[j].t = "str"
    THEN [ok |-> TRUE, val |-> PyStr(toks[j].v), next |-> j + 1]
    ELSE IF toks[j].t = "word" /\ toks[j].v[1] \in JsonLiterals
    THEN [ok |-> TRUE, val |-> PyLit(toks[j].v), next |-> j + 1]
    ELSE IF toks[j] = Sym("{")
    THEN LET k == SkipWs(toks, j + 1) IN
         IF k <= Len(toks) /\ toks[k] = Sym("}")
         THEN [ok |-> TRUE, val |-> PyDict(EmptyDict), next |-> k + 1]
         ELSE ParseMember(toks, k, EmptyDict)
    ELSE JsonFail

\* json.loads: the value, or ok = FALSE where it raises JSONDecodeError.
JsonLoads(toks) ==
    LET r == ParseValue(toks, 1) IN
    IF r.ok /\ SkipWs(toks, r.next) > Len(toks)
    THEN [ok |-> TRUE, val |-> r.val]
    ELSE [ok |-> FALSE, val |-> None]

IsPrefix(s, t) == Len(s) <= Len(t) /\ SubSeq(t, 1, Len(s)) = s

\* ------------------------------------------------------------------ parser

KQuestion == <<"question">>
KOptions == <<"options">>
KCorrectAnswer == <<"correct_answer">>
KExplanation == <<"explanation">>
KDifficulty == <<"difficulty">>

\* fields of extract_json, required_fields of _validate_question_data
RequiredFields == {KQuestion, KOptions, KCorrectAnswer, KExplanation}

\* text without a code fence at its very start (with the language tag that
\* follows it) and at its very end.
RemoveFences(toks) ==
    LET opened ==
            IF toks # <<>> /\ toks[1] = Fence
            THEN IF Len(toks) >= 2 /\ toks[2].t = "word"
                 THEN SubSeq(toks, 3, Len(toks))
                 ELSE Tail(toks)
            ELSE toks
        a == StripText(opened)
        closed ==
            IF a # <<>> /\ a[Len(a)] = Fence THEN SubSeq(a, 1, Len(a) - 1) ELSE a
    IN  StripText(closed)

Positions(toks, tok) == {i \in 1..Len(toks) : toks[i] = tok}

Min(S) == CHOOSE x \in S : \A y \in S : x <= y
Max(S) == CHOOSE x \in S : \A y \in S : x >= y

\* Mutant: the pattern anchored at the start of the text.
HasBraceMatch_Anchored(toks) ==
    /\ toks # <<>> /\ toks[1] = Sym("{")
    /\ Positions(toks, Sym("}")) # {}

\* re.search(r"\{.*\}", text, re.DOTALL): from the first { to the last }.
HasBraceMatch(toks) ==
    /\ Positions(toks, Sym("{")) # {}
    /\ Positions(toks, Sym("}")) # {}
    /\ Min(Positions(toks, Sym("{"))) < Max(Positions(toks, Sym("}")))

BraceMatch(toks) ==
    SubSeq(toks, Min(Positions(toks, Sym("{"))), Max(Positions(toks, Sym("}"))))

\* The places where "<field>"\s*: matches, as the index just after the colon.
FieldMatches(toks, field) ==
    {SkipWs(toks, i + 1) + 1 : i \in
        {i \in Positions(toks, Quoted(field)) :
            /\ SkipWs(toks, i + 1) <= Len(toks)
            /\ toks[SkipWs(toks, i + 1)] = Sym(":")}}

\* The end of the line that holds index i: the index before the next newline.
RECURSIVE LineEnd(_, _)
LineEnd(toks, i) ==
    IF i <= Len(toks) /\ toks[i] # NL THEN LineEnd(toks, i + 1) ELSE i - 1

\* group(1) of the leftmost match of "<field>"\s*:\s*(.*), then
\* .strip().rstrip(",").
FieldValue(toks, field) ==
    LET from == SkipWs(toks, Min(FieldMatches(toks, field))) IN
    RStripCommas(StripText(SubSeq(toks, from, LineEnd(toks, from))))

\* A value of the line-by-line tier other than options: the characters of
\* the value, without the quotes around them if it has both.
Unquote(toks) ==
    LET s == TextChars(toks) IN
    IF StartsWith(s, "\"") /\ EndsWith(s, "\"") THEN SubSeq(s, 2, Len(s) - 1) ELSE s

EmptyOptions == [k \in {<<"a">>, <<"b">>, <<"c">>, <<"d">>} |-> PyStr(<<>>)]

\* Mutant: the line-by-line tier makes the last option key the answer.
LineByLine_LastKeyAnswer(toks) ==
    LET found == {f \in RequiredFields : FieldMatches(toks, f) # {}} IN
    [f \in found |->
        IF f = KOptions
        THEN IF JsonLoads(FieldValue(toks, f)).ok
             THEN JsonLoads(FieldValue(toks, f)).val
             ELSE PyDict(EmptyOptions)
        ELSE IF f = KCorrectAnswer THEN PyStr(<<"d">>)
        ELSE PyStr(Unquote(FieldValue(toks, f)))]

\* The dict the line-by-line tier assembles from the fields it finds.
LineByLine(toks) ==
    LET found == {f \in RequiredFields : FieldMatches(toks, f) # {}} IN
    [f \in found |->
        IF f = KOptions
        THEN IF JsonLoads(FieldValue(toks, f)).ok
             THEN JsonLoads(FieldValue(toks, f)).val
             ELSE PyDict(EmptyOptions)
        ELSE PyStr(Unquote(FieldValue(toks, f)))]

Returned(val) == [raised |-> "none", data |-> val]
Raised(exc) == [raised |-> exc, data |-> None]

\* extract_json: the value it returns, or the exception it raises.
ExtractJson(text) ==
    LET toks == RemoveFences(text) IN
    IF HasBraceMatch(toks)
    THEN IF JsonLoads(BraceMatch(toks)).ok
         THEN Returned(JsonLoads(BraceMatch(toks)).val)
         ELSE Raised("JSONDecodeError")
    ELSE IF Positions(toks, Quoted(KQuestion)) # {}
            /\ ~(toks # <<>> /\ toks[1] = Sym("{"))
    THEN LET try_str == <<Sym("{")>> \o StripCommas(toks) \o <<Sym("}")>> IN
         IF JsonLoads(try_str).ok
         THEN Returned(JsonLoads(try_str).val)
         ELSE Raised("JSONDecodeError")
    ELSE IF DOMAIN LineByLine(toks) = RequiredFields
    THEN Returned(PyDict(LineByLine(toks)))
    ELSE IF JsonLoads(toks).ok
    THEN Returned(JsonLoads(toks).val)
    ELSE Raised("ValueError")

\* --------------------------------------------------------------- validator

OptionKeys == {<<"a">>, <<"b">>, <<"c">>, <<"d">>}

DifficultyLevels == {<<"Easy">>, <<"Medium">>, <<"Hard">>}

\* `field in data` for each required field: a key test on a dict, a
\* substring test on a str.
HasRequiredFields(data) ==
    IF IsDict(data) THEN RequiredFields \subseteq DOMAIN data.dict
    ELSE \A f \in RequiredFields : \E i \in 1..Len(data.str) : data.str[i] = f[1]

\* Mutant: an explanation of exactly 10 characters fails.
ValidateQuestionData_Over10(data) ==
    IF IsLit(data) THEN "raise"
    ELSE IF ~HasRequiredFields(data) THEN "fail"
    ELSE IF IsStr(data) THEN "raise"
    ELSE LET d == data.dict IN
    IF ~Truthy(d[KQuestion]) THEN "fail"
    ELSE IF ~IsStr(d[KQuestion]) THEN "raise"
    ELSE IF ~EndsWith(Strip(d[KQuestion].str), "?") THEN "fail"
    ELSE IF ~IsDict(d[KOptions]) \/ DOMAIN d[KOptions].dict # OptionKeys THEN "fail"
    ELSE IF d[KCorrectAnswer] \notin {PyStr(k) : k \in OptionKeys} THEN "fail"
    ELSE IF ~Truthy(d[KExplanation]) THEN "fail"
    ELSE IF ~IsStr(d[KExplanation]) THEN "raise"
    ELSE IF Len(Strip(d[KExplanation].str)) <= 10 THEN "fail"
    ELSE IF KDifficulty \in DOMAIN d
            /\ d[KDifficulty] \notin {PyStr(x) : x \in DifficultyLevels} THEN "fail"
    ELSE "pass"

\* Mutant: an explanation of 9 characters passes.
ValidateQuestionData_Min9(data) ==
    IF IsLit(data) THEN "raise"
    ELSE IF ~HasRequiredFields(data) THEN "fail"
    ELSE IF IsStr(data) THEN "raise"
    ELSE LET d == data.dict IN
    IF ~Truthy(d[KQuestion]) THEN "fail"
    ELSE IF ~IsStr(d[KQuestion]) THEN "raise"
    ELSE IF ~EndsWith(Strip(d[KQuestion].str), "?") THEN "fail"
    ELSE IF ~IsDict(d[KOptions]) \/ DOMAIN d[KOptions].dict # OptionKeys THEN "fail"
    ELSE IF d[KCorrectAnswer] \notin {PyStr(k) : k \in OptionKeys} THEN "fail"
    ELSE IF ~Truthy(d[KExplanation]) THEN "fail"
    ELSE IF ~IsStr(d[KExplanation]) THEN "raise"
    ELSE IF Len(Strip(d[KExplanation].str)) < 9 THEN "fail"
    ELSE IF KDifficulty \in DOMAIN d
            /\ d[KDifficulty] \notin {PyStr(x) : x \in DifficultyLevels} THEN "fail"
    ELSE "pass"

\* Mutant: the correct answer is not looked at.
ValidateQuestionData_AnyAnswer(data) ==
    IF IsLit(data) THEN "raise"
    ELSE IF ~HasRequiredFields(data) THEN "fail"
    ELSE IF IsStr(data) THEN "raise"
    ELSE LET d == data.dict IN
    IF ~Truthy(d[KQuestion]) THEN "fail"
    ELSE IF ~IsStr(d[KQuestion]) THEN "raise"
    ELSE IF ~EndsWith(Strip(d[KQuestion].str), "?") THEN "fail"
    ELSE IF ~IsDict(d[KOptions]) \/ DOMAIN d[KOptions].dict # OptionKeys THEN "fail"
    ELSE IF ~Truthy(d[KExplanation]) THEN "fail"
    ELSE IF ~IsStr(d[KExplanation]) THEN "raise"
    ELSE IF Len(Strip(d[KExplanation].str)) < 10 THEN "fail"
    ELSE IF KDifficulty \in DOMAIN d
            /\ d[KDifficulty] \notin {PyStr(x) : x \in DifficultyLevels} THEN "fail"
    ELSE "pass"

\* _validate_question_data: "pass" for True, "fail" for False, "raise" where
\* it raises (TypeError or AttributeError on a value of another type).
ValidateQuestionData(data) ==
    IF IsLit(data) THEN "raise"
    ELSE IF ~HasRequiredFields(data) THEN "fail"
    ELSE IF IsStr(data) THEN "raise"
    ELSE LET d == data.dict IN
    IF ~Truthy(d[KQuestion]) THEN "fail"
    ELSE IF ~IsStr(d[KQuestion]) THEN "raise"
    ELSE IF ~EndsWith(Strip(d[KQuestion].str), "?") THEN "fail"
    ELSE IF ~IsDict(d[KOptions]) \/ DOMAIN d[KOptions].dict # OptionKeys THEN "fail"
    ELSE IF d[KCorrectAnswer] \notin {PyStr(k) : k \in OptionKeys} THEN "fail"
    ELSE IF ~Truthy(d[KExplanation]) THEN "fail"
    ELSE IF ~IsStr(d[KExplanation]) THEN "raise"
    ELSE IF Len(Strip(d[KExplanation].str)) < 10 THEN "fail"
    ELSE IF KDifficulty \in DOMAIN d
            /\ d[KDifficulty] \notin {PyStr(x) : x \in DifficultyLevels} THEN "fail"
    ELSE "pass"

\* ------------------------------------------------------------- completions

\* Question texts the stub client can put in a completion.
QLower == <<"a", "?">>
QUpper == <<"A", "?">>
QPadded == <<" ", "a", "?">>
QOther == <<"b", "?">>
QThird == <<"b", "a", "?">>
QNoMark == <<"a">>

Explanation10 == <<"e", "x", "p", "l", "a", "i", "n", " ", "i", "t">>
ExplanationOk == <<"o", "k">>

\* "<key>": "<text>"
Member(key, s) == <<Quoted(key), Sym(":"), SP, Quoted(s)>>

OptionsThreeText ==
    <<Sym("{")>> \o Member(<<"a">>, <<"o">>) \o <<Sym(","), SP>>
    \o Member(<<"b">>, <<"o">>) \o <<Sym(","), SP>>
    \o Member(<<"c">>, <<"o">>) \o <<Sym("}")>>

OptionsFourText ==
    <<Sym("{")>> \o Member(<<"a">>, <<"o">>) \o <<Sym(","), SP>>
    \o Member(<<"b">>, <<"o">>) \o <<Sym(","), SP>>
    \o Member(<<"c">>, <<"o">>) \o <<Sym(","), SP>>
    \o Member(<<"d">>, <<"o">>) \o <<Sym("}")>>

\* The JSON object the prompt asks for, one member to a line.
ObjectText(q, opts, ans, expl) ==
    <<Sym("{"), NL>>
    \o Member(KQuestion, q) \o <<Sym(","), NL>>
    \o <<Quoted(KOptions), Sym(":"), SP>> \o opts \o <<Sym(","), NL>>
    \o Member(KCorrectAnswer, ans) \o <<Sym(","), NL>>
    \o Member(KExplanation, expl) \o <<NL, Sym("}")>>

\* A completion: the text the LLM returned.
Completion(toks) == [kind |-> "text", text |-> toks]

\* model.generate_content raised.
ClientFailure == [kind |-> "raise", text |-> <<>>]

\* Braces around something that is not JSON.
BrokenJsonText == <<Sym("{"), Quoted(KQuestion), Sym(":"), SP, Word("oops"), Sym("}")>>

\* No braces and no field name.
GarbageText == <<Word("sorry"), NL>>

GoodTexts == {QLower, QUpper, QPadded, QOther, QThird}

Completions ==
    {Completion(ObjectText(q, OptionsFourText, <<"a">>, Explanation10)) : q \in GoodTexts}
    \cup {Completion(ObjectText(QNoMark, OptionsFourText, <<"a">>, Explanation10)),
          Completion(ObjectText(QLower, OptionsThreeText, <<"a">>, Explanation10)),
          Completion(ObjectText(QLower, OptionsFourText, <<"e">>, Explanation10)),
          Completion(ObjectText(QLower, OptionsFourText, <<"a">>, ExplanationOk)),
          Completion(BrokenJsonText), Completion(GarbageText), ClientFailure}

\* --------------------------------------------- completions of a fixed client

\* The number of characters of the text that extract_json puts into the
\* message of the ValueError it raises (text[:200]).
ExcerptLength == 200

QTrailing == <<"a", "?", " ">>
QEmpty == <<>>
QBlank == <<" ">>

Explanation9 == <<"e", "x", "p", "l", "a", "i", "n", "i", "t">>
ExplanationPadded10 == <<" ">> \o Explanation10 \o <<" ">>
ExplanationPadded9 == <<" ">> \o Explanation9 \o <<" ">>
ExplanationBlank == [i \in 1..10 |-> " "]

OptionsFiveText ==
    SubSeq(OptionsFourText, 1, Len(OptionsFourText) - 1)
    \o <<Sym(","), SP>> \o Member(<<"e">>, <<"o">>) \o <<Sym("}")>>

\* Four options, the first of them with an empty text.
OptionsEmptyValueText ==
    <<Sym("{")>> \o Member(<<"a">>, <<>>) \o <<Sym(","), SP>>
    \o Member(<<"b">>, <<"o">>) \o <<Sym(","), SP>>
    \o Member(<<"c">>, <<"o">>) \o <<Sym(","), SP>>
    \o Member(<<"d">>, <<"o">>) \o <<Sym("}")>>

\* Four options, the first of them a number.
OptionsNumberText ==
    <<Sym("{"), Quoted(<<"a">>), Sym(":"), SP, Word("42"), Sym(","), SP>>
    \o Member(<<"b">>, <<"o">>) \o <<Sym(","), SP>>
    \o Member(<<"c">>, <<"o">>) \o <<Sym(","), SP>>
    \o Member(<<"d">>, <<"o">>) \o <<Sym("}")>>

\* options as a string, not a mapping
OptionsStringText == <<Quoted(<<"a", "b", "c", "d">>)>>

QuestionChoices == {QLower, QNoMark, QTrailing, QEmpty, QBlank}
OptionsChoices ==
    {OptionsFourText, OptionsThreeText, OptionsFiveText, OptionsEmptyValueText,
     OptionsNumberText, OptionsStringText}
AnswerChoices == {<<"a">>, <<"d">>, <<"e">>}
ExplanationChoices ==
    {Explanation10, ExplanationOk, Explanation9, ExplanationPadded10,
     ExplanationPadded9, ExplanationBlank}

\* What follows the explanation: nothing, or a difficulty member.
DifficultyMember(level) == <<Sym(","), NL>> \o Member(KDifficulty, level)
DifficultyMembers ==
    {<<>>} \cup {DifficultyMember(l) : l \in {<<"Easy">>, <<"easy">>, <<"Legendary">>}}

\* ObjectText with `more` between the explanation and the closing brace.
ObjectTextWith(q, opts, ans, expl, more) ==
    LET t == ObjectText(q, opts, ans, expl) IN
    SubSeq(t, 1, Len(t) - 2) \o more \o <<NL, Sym("}")>>

\* Exact JSON objects with the four required members.
ObjectTexts ==
    {ObjectTextWith(q, o, a, e, d) :
        q \in QuestionChoices, o \in OptionsChoices, a \in AnswerChoices,
        e \in ExplanationChoices, d \in DifficultyMembers}

\* The object without its explanation member, and without its question member.
NoExplanationText ==
    <<Sym("{"), NL>>
    \o Member(KQuestion, QLower) \o <<Sym(","), NL>>
    \o <<Quoted(KOptions), Sym(":"), SP>> \o OptionsFourText \o <<Sym(","), NL>>
    \o Member(KCorrectAnswer, <<"a">>) \o <<NL, Sym("}")>>

NoQuestionText ==
    <<Sym("{"), NL>>
    \o <<Quoted(KOptions), Sym(":"), SP>> \o OptionsFourText \o <<Sym(","), NL>>
    \o Member(KCorrectAnswer, <<"a">>) \o <<Sym(","), NL>>
    \o Member(KExplanation, Explanation10) \o <<NL, Sym("}")>>

\* question and explanation that are not strings
NumberQuestionText ==
    <<Sym("{"), NL, Quoted(KQuestion), Sym(":"), SP, Word("42"), Sym(","), NL>>
    \o <<Quoted(KOptions), Sym(":"), SP>> \o OptionsFourText \o <<Sym(","), NL>>
    \o Member(KCorrectAnswer, <<"a">>) \o <<Sym(","), NL>>
    \o Member(KExplanation, Explanation10) \o <<NL, Sym("}")>>

NumberExplanationText ==
    <<Sym("{"), NL>>
    \o Member(KQuestion, QLower) \o <<Sym(","), NL>>
    \o <<Quoted(KOptions), Sym(":"), SP>> \o OptionsFourText \o <<Sym(","), NL>>
    \o Member(KCorrectAnswer, <<"a">>) \o <<Sym(","), NL>>
    \o <<Quoted(KExplanation), Sym(":"), SP, Word("42"), NL, Sym("}")>>

\* The object with a comma after its last member: not JSON, yet every field
\* stands on a line of its own.
TrailingCommaText ==
    LET t == ObjectText(QLower, OptionsFourText, <<"a">>, Explanation10) IN
    SubSeq(t, 1, Len(t) - 2) \o <<Sym(","), NL, Sym("}")>>

\* The members with an opening brace and no closing one, the options
\* abridged by the LLM.
UnclosedText ==
    <<Sym("{"), NL>>
    \o Member(KQuestion, QLower) \o <<Sym(","), NL>>
    \o <<Quoted(KOptions), Sym(":"), SP, Word("..."), Sym(","), NL>>
    \o Member(KCorrectAnswer, <<"a">>) \o <<Sym(","), NL>>
    \o Member(KExplanation, Explanation10)

\* Members without braces around them.
BareMembersText ==
    Member(KQuestion, QLower) \o <<Sym(","), NL>>
    \o Member(KCorrectAnswer, <<"a">>) \o <<Sym(",")>>

\* The members of the whole object without braces around them.
BareObjectText ==
    LET t == ObjectText(QLower, OptionsFourText, <<"a">>, Explanation10) IN
    SubSeq(t, 3, Len(t) - 2)

\* A JSON string and a JSON number.
QuestionWordText == <<Quoted(KQuestion)>>
StringText == <<Quoted(<<"h", "i">>)>>
NumberText == <<Word("42")>>

\* More characters than the excerpt of the ValueError holds.
LongGarbageText == [i \in 1..(ExcerptLength + 1) |-> Word("x")]

\* Texts that are not a JSON object of the four members.
OtherTexts ==
    {NoExplanationText, NoQuestionText, NumberQuestionText, NumberExplanationText,
     TrailingCommaText, UnclosedText, BareMembersText, BareObjectText,
     QuestionWordText, StringText, NumberText, BrokenJsonText, GarbageText,
     LongGarbageText}

\* What an LLM puts before the JSON it was asked for.
Proses ==
    {<<Word("Here"), Sym(":"), NL>>,
     <<Word("Sure"), Sym(","), SP, Word("about"), SP, Sym("{"), Sym("}"), Sym(":"), NL>>}

\* `toks` inside a code block that `prose` leads to.
Wrapped(prose, toks) ==
    prose \o <<Fence, Word("json"), NL>> \o toks \o <<NL, Fence, NL>>

\* `toks` inside a code block, nothing before it.
Fenced(toks) == <<Fence, Word("json"), NL>> \o toks \o <<NL, Fence>>

\* The texts that are given a wrapping.
WrappableTexts ==
    {ObjectText(QLower, OptionsFourText, <<"a">>, Explanation10),
     ObjectText(QNoMark, OptionsThreeText, <<"e">>, ExplanationOk),
     BareMembersText, BareObjectText, TrailingCommaText, GarbageText}

WrappedTexts ==
    {Wrapped(p, t) : p \in Proses, t \in WrappableTexts}
    \cup {Fenced(t) : t \in WrappableTexts}

\* The completions a client that always gives the same one is drawn from.
FixedCompletions ==
    {Completion(t) : t \in ObjectTexts \cup OtherTexts \cup WrappedTexts}
    \cup {ClientFailure}

\* ------------------------------------------------------------- workflow nodes

VARIABLES
    technology,        \* WorkflowState["technology"]
    difficulty,        \* WorkflowState["difficulty"]
    num_questions,     \* WorkflowState["num_questions"]
    questions,         \* WorkflowState["questions"]
    errors,            \* WorkflowState["errors"]
    current_question,  \* WorkflowState["current_question"]
    pc,                \* the node the graph runs next, "END", or "returned"
    result,            \* what generate_test returned, None before it returns
    stub_same,         \* every outcome so far is one and the same valid completion
    stub_valid,        \* every outcome so far is a completion that validates
    stub_fresh,        \* ... and differs case-insensitively from the earlier ones
    stub_garbage,      \* every outcome so far is a text extract_json rejects
    produced,          \* valid question texts in the order the client first gave them
    response,          \* the completion of a client that always gives the same one, or None
    extracted,         \* what extract_json made of it, None before it is called
    runs,              \* the calls made side by side on one workflow object, by id
    api_key,           \* self.api_key of the workflow object
    test_set_files,    \* data/tests/test_set_<id>.json: the content of each file, by id
    tests_index        \* data/tests/tests.json: the list it holds

state == <<technology, difficulty, num_questions, questions, errors, current_question>>
stub == <<stub_same, stub_valid, stub_fresh, stub_garbage, produced>>
probe == <<response, extracted>>
disk == <<test_set_files, tests_index>>
vars == <<state, pc, result, stub, probe, runs, api_key, disk>>

Technologies == {"Python"}
DifficultyChoices == {"Easy"}

\* Mutant: the question text is stored trimmed.
FormattedQuestion_Trimmed(data) ==
    [question |-> PyStr(Strip(data.dict[KQuestion].str)),
     options |-> data.dict[KOptions],
     answer |-> [answer |-> data.dict[KCorrectAnswer],
                 explanation |-> data.dict[KExplanation]]]

\* The candidate as the generate node stores it (lines 179-186).
FormattedQuestion(data) ==
    [question |-> data.dict[KQuestion],
     options |-> data.dict[KOptions],
     answer |-> [answer |-> data.dict[KCorrectAnswer],
                 explanation |-> data.dict[KExplanation]]]

\* extract_json on each text the client can give.  The parse depends on the
\* text alone, so it is tabulated once.
CompletionTexts ==
    {StripText(c.text) : c \in {x \in Completions \cup FixedCompletions : x.kind = "text"}}
Extracted == [text \in CompletionTexts |-> ExtractJson(text)]

\* An entry of errors: the fixed leading text of the message, and the raw
\* completion text the parse errors end with.
Error(msg) == [msg |-> msg, excerpt |-> <<>>, raw |-> <<>>]
ParseError(msg, text) == [msg |-> msg, excerpt |-> <<>>, raw |-> text]

\* text[:200] in extract_json, where text is without its code fences.
Excerpt(text) ==
    LET s == TextChars(RemoveFences(text)) IN
    SubSeq(s, 1, IF Len(s) < ExcerptLength THEN Len(s) ELSE ExcerptLength)

\* The entry for the ValueError of extract_json: its message holds the
\* excerpt, and the entry ends with the whole text all the same.
ExtractionError(text) ==
    [msg |-> "Unexpected error during JSON extraction",
     excerpt |-> Excerpt(text), raw |-> text]

\* Mutant: the reset of errors sits outside the validity test, so an invalid
\* candidate clears the errors too.
GenerateSingleQuestion_ResetAlways(resp, errs) ==
    IF resp.kind = "raise"
    THEN [current_question |-> None,
          errors |-> Append(errs, Error("Error generating question"))]
    ELSE LET text == StripText(resp.text)
             parsed == Extracted[text]
             unexpected ==
                [current_question |-> None,
                 errors |-> Append(errs,
                    ParseError("Unexpected error during JSON extraction", text))]
         IN
         CASE parsed.raised = "JSONDecodeError" ->
                [current_question |-> None,
                 errors |-> Append(errs,
                    ParseError("Failed to parse LLM response as JSON", text))]
           [] parsed.raised = "ValueError" ->
                [current_question |-> None,
                 errors |-> Append(errs, ExtractionError(text))]
           [] OTHER ->
                CASE ValidateQuestionData(parsed.data) = "pass" ->
                       [current_question |-> FormattedQuestion(parsed.data),
                        errors |-> <<>>]
                  [] ValidateQuestionData(parsed.data) = "fail" ->
                       [current_question |-> None,
                        errors |-> <<Error("Invalid question format received from LLM")>>]
                  [] OTHER -> unexpected

\* Mutant: a failure of the LLM call is not recorded.
GenerateSingleQuestion_SilentClientFailure(resp, errs) ==
    IF resp.kind = "raise"
    THEN [current_question |-> None, errors |-> errs]
    ELSE LET text == StripText(resp.text)
             parsed == Extracted[text]
             unexpected ==
                [current_question |-> None,
                 errors |-> Append(errs,
                    ParseError("Unexpected error during JSON extraction", text))]
         IN
         CASE parsed.raised = "JSONDecodeError" ->
                [current_question |-> None,
                 errors |-> Append(errs,
                    ParseError("Failed to parse LLM response as JSON", text))]
           [] parsed.raised = "ValueError" ->
                [current_question |-> None,
                 errors |-> Append(errs, ExtractionError(text))]
           [] OTHER ->
                CASE ValidateQuestionData(parsed.data) = "pass" ->
                       [current_question |-> FormattedQuestion(parsed.data),
                        errors |-> <<>>]
                  [] ValidateQuestionData(parsed.data) = "fail" ->
                       [current_question |-> None,
                        errors |-> Append(errs, Error("Invalid question format received from LLM"))]
                  [] OTHER -> unexpected

\* Mutant: a valid candidate leaves the errors as they are.
GenerateSingleQuestion_NoReset(resp, errs) ==
    IF resp.kind = "raise"
    THEN [current_question |-> None,
          errors |-> Append(errs, Error("Error generating question"))]
    ELSE LET text == StripText(resp.text)
             parsed == Extracted[text]
             unexpected ==
                [current_question |-> None,
                 errors |-> Append(errs,
                    ParseError("Unexpected error during JSON extraction", text))]
         IN
         CASE parsed.raised = "JSONDecodeError" ->
                [current_question |-> None,
                 errors |-> Append(errs,
                    ParseError("Failed to parse LLM response as JSON", text))]
           [] parsed.raised = "ValueError" ->
                [current_question |-> None,
                 errors |-> Append(errs, ExtractionError(text))]
           [] OTHER ->
                CASE ValidateQuestionData(parsed.data) = "pass" ->
                       [current_question |-> FormattedQuestion(parsed.data),
                        errors |-> errs]
                  [] ValidateQuestionData(parsed.data) = "fail" ->
                       [current_question |-> None,
                        errors |-> Append(errs, Error("Invalid question format received from LLM"))]
                  [] OTHER -> unexpected

\* generate_single_question on the outcome `resp` of the LLM call: the
\* current_question and errors it leaves in the state.  The prompt is the
\* fixed template formatted with two strings, which cannot fail, so the
\* early return of lines 97-99 is not taken.
GenerateSingleQuestion(resp, errs) ==
    IF resp.kind = "raise"
    THEN [current_question |-> None,
          errors |-> Append(errs, Error("Error generating question"))]
    ELSE LET text == StripText(resp.text)
             parsed == Extracted[text]
             unexpected ==
                [current_question |-> None,
                 errors |-> Append(errs,
                    ParseError("Unexpected error during JSON extraction", text))]
         IN
         CASE parsed.raised = "JSONDecodeError" ->
                [current_question |-> None,
                 errors |-> Append(errs,
                    ParseError("Failed to parse LLM response as JSON", text))]
           [] parsed.raised = "ValueError" ->
                [current_question |-> None,
                 errors |-> Append(errs, ExtractionError(text))]
           [] OTHER ->
                CASE ValidateQuestionData(parsed.data) = "pass" ->
                       [current_question |-> FormattedQuestion(parsed.data),
                        errors |-> <<>>]
                  [] ValidateQuestionData(parsed.data) = "fail" ->
                       [current_question |-> None,
                        errors |-> Append(errs, Error("Invalid question format received from LLM"))]
                  [] OTHER -> unexpected

\* Mutant: the comparison without lower().
IsDuplicate_CaseSensitive(cur, qs) ==
    \E i \in 1..Len(qs) : qs[i].question.str = cur.question.str

\* The duplicate test of validate_and_add_question.
IsDuplicate(cur, qs) ==
    \E i \in 1..Len(qs) : Lower(qs[i].question.str) = Lower(cur.question.str)

\* Mutant: the accepted candidate is inserted at the front of the list.
ValidateAndAddQuestion_Prepend(cur, qs, errs) ==
    IF cur # None
    THEN IF IsDuplicate(cur, qs)
         THEN [questions |-> qs,
               errors |-> Append(errs, Error("Duplicate question detected")),
               current_question |-> None]
         ELSE [questions |-> <<cur>> \o qs,
               errors |-> errs,
               current_question |-> None]
    ELSE [questions |-> qs,
          errors |-> Append(errs, Error("No valid question to add")),
          current_question |-> cur]

\* Mutant: a duplicate is dropped without an error.
ValidateAndAddQuestion_DuplicateSilent(cur, qs, errs) ==
    IF cur # None
    THEN IF IsDuplicate(cur, qs)
         THEN [questions |-> qs,
               errors |-> errs,
               current_question |-> None]
         ELSE [questions |-> Append(qs, cur),
               errors |-> errs,
               current_question |-> None]
    ELSE [questions |-> qs,
          errors |-> Append(errs, Error("No valid question to add")),
          current_question |-> cur]

\* Mutant: a cycle without a candidate adds no error of its own.
ValidateAndAddQuestion_NoCandidateSilent(cur, qs, errs) ==
    IF cur # None
    THEN IF IsDuplicate(cur, qs)
         THEN [questions |-> qs,
               errors |-> Append(errs, Error("Duplicate question detected")),
               current_question |-> None]
         ELSE [questions |-> Append(qs, cur),
               errors |-> errs,
               current_question |-> None]
    ELSE [questions |-> qs,
          errors |-> errs,
          current_question |-> cur]

\* validate_and_add_question: the questions, errors and current_question it leaves.
ValidateAndAddQuestion(cur, qs, errs) ==
    IF cur # None
    THEN IF IsDuplicate(cur, qs)
         THEN [questions |-> qs,
               errors |-> Append(errs, Error("Duplicate question detected")),
               current_question |-> None]
         ELSE [questions |-> Append(qs, cur),
               errors |-> errs,
               current_question |-> None]
    ELSE [questions |-> qs,
          errors |-> Append(errs, Error("No valid question to add")),
          current_question |-> cur]

\* Mutant: the target test with > for >=.
ShouldContinue_Strict(qs, errs, n) ==
    IF Len(qs) > n THEN "END"
    ELSE IF errs # <<>> /\ Len(errs) > 5 THEN "END"
    ELSE "generate"

\* Mutant: the budget test with > 6 for > 5.
ShouldContinue_Budget6(qs, errs, n) ==
    IF Len(qs) >= n THEN "END"
    ELSE IF errs # <<>> /\ Len(errs) > 6 THEN "END"
    ELSE "generate"

\* Mutant: any logged error ends the run.
ShouldContinue_FirstError(qs, errs, n) ==
    IF Len(qs) >= n THEN "END"
    ELSE IF errs # <<>> THEN "END"
    ELSE "generate"

\* should_continue: the node the conditional edge routes to.
ShouldContinue(qs, errs, n) ==
    IF Len(qs) >= n THEN "END"
    ELSE IF errs # <<>> /\ Len(errs) > 5 THEN "END"
    ELSE "generate"

\* Mutant: a run that logged errors returns no questions.
TestResult_DropPartial(tech, diff, qs, errs) ==
    [questions |-> IF errs = <<>> THEN qs ELSE <<>>,
     errors |-> errs, technology |-> tech, difficulty |-> diff,
     total_questions |-> IF errs = <<>> THEN Len(qs) ELSE 0]

\* The dict generate_test returns.
TestResult(tech, diff, qs, errs) ==
    [questions |-> qs, errors |-> errs, technology |-> tech, difficulty |-> diff,
     total_questions |-> Len(qs)]

\* ------------------------------------------------------------- the stub client

\* The LLM client is free to give any of Completions on any call.  The stub_
\* variables record what kind of client it has been so far, and `produced`
\* the valid question texts it gave, so that statements about a client
\* that always answers in one way can be made.

Parsed(c) == Extracted[StripText(c.text)]

IsValidCompletion(c) ==
    /\ c.kind = "text"
    /\ Parsed(c).raised = "none"
    /\ ValidateQuestionData(Parsed(c).data) = "pass"

IsUnparsable(c) == c.kind = "text" /\ Parsed(c).raised # "none"

IsFresh(c, seen) ==
    /\ IsValidCompletion(c)
    /\ \A i \in 1..Len(seen) : Lower(seen[i]) # Lower(Parsed(c).data.dict[KQuestion].str)

\* `c` is a valid completion and the one the client gave on its earlier calls:
\* the first of them was accepted, so `qs` starts with it.
IsRepeat(c, qs) ==
    /\ IsValidCompletion(c)
    /\ qs # <<>> => FormattedQuestion(Parsed(c).data) = qs[1]

\* ------------------------------------------------------------------ storage

\* The ids uuid4 gives the test sets.
SetIds == {"s1", "s2"}

\* The names a test is saved under, and the titles it is given later.
TestNames == {"", "Quiz"}
NewTitles == {"Renamed"}

\* The lists of tests handed to save_tests.
TestLists == {<<>>, <<"q1">>}

\* No file test_set_<id>.json, as after FileStorageService() on an empty
\* data directory; load_tests then returns [].
NoFiles == [i \in {} |-> None]

\* The test set save_tests builds (lines 65-76), without its creation date
\* and metadata.
NewTestSet(id, test_name, tests) ==
    [id |-> id,
     title |-> IF test_name \in {"", " "} THEN "Untitled Test" ELSE test_name,
     tests |-> tests,
     total_tests |-> Len(tests)]

\* The dicts update_test_set is called with: any choice of the keys id and
\* title.
UpdatedDatas ==
    UNION {{d \in [K -> SetIds \cup NewTitles] :
                /\ "id" \in K => d["id"] \in SetIds
                /\ "title" \in K => d["title"] \in NewTitles} :
           K \in SUBSET {"id", "title"}}

\* test_set.update(updated_data)
DictUpdate(test_set, updated_data) ==
    [k \in DOMAIN test_set |->
        IF k \in DOMAIN updated_data THEN updated_data[k] ELSE test_set[k]]

\* _update_tests_index then _save_tests_index: the entries of another id,
\* then the test set.
UpdateTestsIndex(index, test_set) ==
    Append(SelectSeq(index, LAMBDA ts : ts.id # test_set.id), test_set)

\* The file of the id written with the content.
WriteFile(files, id, content) ==
    [i \in DOMAIN files \cup {id} |-> IF i = id THEN content ELSE files[i]]

\* The file of the id unlinked.
Unlink(files, id) == [i \in DOMAIN files \ {id} |-> files[i]]

\* ------------------------------------------------------------ construction

\* What os.environ.get("GEMINI_API_KEY") gives: None where the variable is
\* not set, else its value, which may be empty.
EnvironmentKeys == {None, PyStr(<<>>), PyStr(<<"k">>)}

\* `if not self.api_key` is not taken.
HasApiKey(key) == key # None /\ Truthy(key)

\* TestGenerationWorkflow(): with no key it logs a warning, keeps the key it
\* read and goes on to genai.configure; it raises nothing.
NewWorkflow(key) ==
    [raised |-> FALSE, api_key |-> key, warned |-> ~HasApiKey(key)]

\* The keys of the workflow objects whose construction returned.
ConstructedKeys ==
    {NewWorkflow(k).api_key : k \in {e \in EnvironmentKeys : ~NewWorkflow(e).raised}}

\* The outcomes of model.generate_content: without a key the call fails, as
\* the warning of line 53 says.
ClientOutcomes(key) == IF HasApiKey(key) THEN Completions ELSE {ClientFailure}

\* ------------------------------------------------------------------ actions

\* generate_test builds the state and enters the graph at generate.
InitialState ==
    /\ technology \in Technologies
    /\ difficulty \in DifficultyChoices
    /\ num_questions \in 1..MaxTarget
    /\ questions = <<>>
    /\ errors = <<>>
    /\ current_question = None
    /\ pc = "generate"
    /\ result = None
    /\ stub_same = TRUE
    /\ stub_valid = TRUE
    /\ stub_fresh = TRUE
    /\ stub_garbage = TRUE
    /\ produced = <<>>
    /\ test_set_files = NoFiles
    /\ tests_index = <<>>

\* A run whose client is free on every call.
Init ==
    /\ InitialState
    /\ api_key \in ConstructedKeys
    /\ response = None
    /\ extracted = None
    /\ runs = <<>>

\* Mutant: a generate node that set no candidate is followed by END.
GenerateOn_FailureEnds(resp) ==
    /\ pc = "generate"
    /\ LET out == GenerateSingleQuestion(resp, errors) IN
         /\ current_question' = out.current_question
         /\ errors' = out.errors
         /\ stub_same' = (stub_same /\ IsRepeat(resp, questions))
         /\ stub_valid' = (stub_valid /\ IsValidCompletion(resp))
         /\ stub_fresh' = (stub_fresh /\ IsFresh(resp, produced))
         /\ stub_garbage' = (stub_garbage /\ IsUnparsable(resp))
         /\ produced' = IF IsFresh(resp, produced)
                        THEN Append(produced, Parsed(resp).data.dict[KQuestion].str)
                        ELSE produced
         /\ pc' = IF out.current_question = None THEN "END" ELSE "validate"
    /\ UNCHANGED <<technology, difficulty, num_questions, questions, result>>

\* The generate node on the outcome `resp` of its LLM call, then the edge to
\* validate.
GenerateOn(resp) ==
    /\ pc = "generate"
    /\ LET out == GenerateSingleQuestion(resp, errors) IN
         /\ current_question' = out.current_question
         /\ errors' = out.errors
         /\ stub_same' = (stub_same /\ IsRepeat(resp, questions))
         /\ stub_valid' = (stub_valid /\ IsValidCompletion(resp))
         /\ stub_fresh' = (stub_fresh /\ IsFresh(resp, produced))
         /\ stub_garbage' = (stub_garbage /\ IsUnparsable(resp))
         /\ produced' = IF IsFresh(resp, produced)
                        THEN Append(produced, Parsed(resp).data.dict[KQuestion].str)
                        ELSE produced
    /\ pc' = "validate"
    /\ UNCHANGED <<technology, difficulty, num_questions, questions, result>>

\* The generate node with a client free to give any of Completions, if it has
\* a key to call with.
Generate ==
    /\ \E resp \in ClientOutcomes(api_key) : GenerateOn(resp)
    /\ UNCHANGED <<probe, runs, api_key, disk>>

\* The validate node, then the conditional edge.
Validate ==
    /\ pc = "validate"
    /\ LET out == ValidateAndAddQuestion(current_question, questions, errors) IN
         /\ questions' = out.questions
         /\ errors' = out.errors
         /\ current_question' = out.current_question
         /\ pc' = ShouldContinue(out.questions, out.errors, num_questions)
    /\ UNCHANGED <<technology, difficulty, num_questions, result, stub, probe, runs, api_key, disk>>

\* The graph has ended: generate_test returns.
Return ==
    /\ pc = "END"
    /\ result' = TestResult(technology, difficulty, questions, errors)
    /\ pc' = "returned"
    /\ UNCHANGED <<state, stub, probe, runs, api_key, disk>>

Next == Generate \/ Validate \/ Return

Spec == Init /\ [][Next]_vars

\* The graph engine runs the next node whenever there is one.
FairSpec == Spec /\ WF_vars(Next)

\* The targets of the calls whose client or company is fixed: with one
\* question asked for the first accepted candidate ends the call, with two a
\* second one is looked for.
RunTargets == {1, 2}

\* A run whose client gives the same completion on every call.
FixedInit ==
    /\ InitialState
    /\ api_key \in {k \in ConstructedKeys : HasApiKey(k)}
    /\ num_questions \in RunTargets
    /\ response \in FixedCompletions
    /\ extracted = None
    /\ runs = <<>>

\* The generate node as far as the call of extract_json on the stripped
\* text.  extract_json depends on the text alone, so what it returns on the
\* first call is what it returns on every call of the run.
CallExtractJson ==
    /\ pc = "generate"
    /\ response.kind = "text"
    /\ extracted = None
    /\ extracted' = ExtractJson(StripText(response.text))
    /\ UNCHANGED <<state, pc, result, stub, response, runs, api_key, disk>>

\* The generate node with the fixed client.
GenerateFixed ==
    /\ response.kind = "raise" \/ extracted # None
    /\ GenerateOn(response)
    /\ UNCHANGED <<probe, runs, api_key, disk>>

FixedNext == CallExtractJson \/ GenerateFixed \/ Validate \/ Return

FixedSpec == FixedInit /\ [][FixedNext]_vars

\* ------------------------------------------------------- calls side by side

\* The most LLM calls a call of generate_test is followed through.
MaxCalls == 3

RunIds == {"r1", "r2"}

\* The four ways a test is asked for.  r1 is made through a synchronous
\* entry point, r2 through an asynchronous one.
WorkflowShapes == {"generate_test", "generate_test_sync"}
ServiceShapes == {"service.generate_test", "service.generate_test_async"}
ShapesOf(r) ==
    IF r = "r1" THEN {"generate_test_sync", "service.generate_test"}
    ELSE {"generate_test", "service.generate_test_async"}

\* What the client gives the calls made side by side.
RunCompletions ==
    {Completion(ObjectText(QLower, OptionsFourText, <<"a">>, Explanation10)),
     Completion(ObjectText(QOther, OptionsFourText, <<"a">>, Explanation10)),
     Completion(GarbageText)}

\* The state generate_test builds for a call (lines 330-337), with the shape
\* of the call and the outcomes of its LLM calls so far.
InitialRun(shape, tech, diff, n) ==
    [shape |-> shape, technology |-> tech, difficulty |-> diff,
     num_questions |-> n, questions |-> <<>>, errors |-> <<>>,
     current_question |-> None, pc |-> "generate", result |-> None,
     outcomes |-> <<>>]

\* Mutant: the nodes of every call work on the state of the first call.
StateOf_Shared(rs, r) ==
    [rs["r1"] EXCEPT !.shape = rs[r].shape, !.outcomes = rs[r].outcomes]

\* The state the nodes of call r are given: the one built in that call.
StateOf(rs, r) == rs[r]

\* The coroutine generate_test: the dict it returns.
GenerateTest(tech, diff, qs, errs) == TestResult(tech, diff, qs, errs)

\* Mutant: the synchronous call loses the errors.
GenerateTestSync_NoErrors(tech, diff, qs, errs) == TestResult(tech, diff, qs, <<>>)

\* generate_test_sync: asyncio.run of the coroutine.
GenerateTestSync(tech, diff, qs, errs) == GenerateTest(tech, diff, qs, errs)

\* The list the service makes of a result (lines 24-36 and 52-64); the id, a
\* fresh uuid4 on every call, is left out.
ServiceTests(res, tech, diff) ==
    [i \in 1..Len(res.questions) |->
        [question_number |-> i,
         question |-> res.questions[i].question,
         options |-> res.questions[i].options,
         answer |-> res.questions[i].answer,
         technology |-> tech,
         difficulty |-> diff]]

\* TestGenerationService.generate_test and generate_test_async.
ServiceGenerateTest(tech, diff, qs, errs) ==
    ServiceTests(GenerateTestSync(tech, diff, qs, errs), tech, diff)

ServiceGenerateTestAsync(tech, diff, qs, errs) ==
    ServiceTests(GenerateTest(tech, diff, qs, errs), tech, diff)

\* FileStorageService.save_tests refuses an empty list (lines 55-56) and
\* raises "Error saving tests: No tests provided to save" (lines 99-102).
SaveTestsRaises(tests) == tests = <<>>

\* What show_test_generation_page does with the list the service returned
\* when the button was pressed: the message it shows and the test it keeps
\* for the preview.  The list is all it is given of the run.
ShowTestGenerationPage(tests) ==
    IF SaveTestsRaises(tests)
    THEN [message |-> "Error generating test: Error saving tests: No tests provided to save",
          generated_test |-> tests]
    ELSE [message |-> "Test generated and saved successfully!",
          generated_test |-> tests]

\* What a call of the given shape returns when its graph has ended.
Returns(shape, tech, diff, qs, errs) ==
    CASE shape = "generate_test" -> GenerateTest(tech, diff, qs, errs)
      [] shape = "generate_test_sync" -> GenerateTestSync(tech, diff, qs, errs)
      [] shape = "service.generate_test" -> ServiceGenerateTest(tech, diff, qs, errs)
      [] shape = "service.generate_test_async" ->
            ServiceGenerateTestAsync(tech, diff, qs, errs)

\* Two calls of the same layer on one workflow object; the single call of
\* the other specifications is not made.
RunsInit ==
    /\ InitialState
    /\ api_key \in {k \in ConstructedKeys : HasApiKey(k)}
    /\ num_questions = 1
    /\ response = None
    /\ extracted = None
    /\ runs \in {rs \in [RunIds -> {InitialRun(sh, t, d, n) :
                                      sh \in WorkflowShapes \cup ServiceShapes,
                                      t \in Technologies, d \in DifficultyChoices,
                                      n \in RunTargets}] :
                   /\ \A r \in RunIds : rs[r].shape \in ShapesOf(r)
                   /\ \/ {rs[r].shape : r \in RunIds} \subseteq WorkflowShapes
                      \/ {rs[r].shape : r \in RunIds} \subseteq ServiceShapes}

\* The generate node of call r.
RunGenerate(r) ==
    LET st == StateOf(runs, r) IN
    /\ st.pc = "generate"
    /\ Len(st.outcomes) < MaxCalls
    /\ \E resp \in RunCompletions :
         LET out == GenerateSingleQuestion(resp, st.errors) IN
         runs' = [runs EXCEPT ![r] =
                    [st EXCEPT !.current_question = out.current_question,
                               !.errors = out.errors,
                               !.pc = "validate",
                               !.outcomes = Append(@, resp)]]
    /\ UNCHANGED <<state, pc, result, stub, probe, api_key, disk>>

\* The validate node of call r and the conditional edge.
RunValidate(r) ==
    LET st == StateOf(runs, r)
        out == ValidateAndAddQuestion(st.current_question, st.questions, st.errors)
    IN
    /\ st.pc = "validate"
    /\ runs' = [runs EXCEPT ![r] =
                  [st EXCEPT !.questions = out.questions,
                             !.errors = out.errors,
                             !.current_question = out.current_question,
                             !.pc = ShouldContinue(out.questions, out.errors,
                                                   st.num_questions)]]
    /\ UNCHANGED <<state, pc, result, stub, probe, api_key, disk>>

\* Call r returns.
RunReturn(r) ==
    LET st == StateOf(runs, r) IN
    /\ st.pc = "END"
    /\ runs' = [runs EXCEPT ![r] =
                  [st EXCEPT !.result = Returns(st.shape, st.technology, st.difficulty,
                                                st.questions, st.errors),
                             !.pc = "returned"]]
    /\ UNCHANGED <<state, pc, result, stub, probe, api_key, disk>>

RunsNext == \E r \in RunIds : RunGenerate(r) \/ RunValidate(r) \/ RunReturn(r)

RunsSpec == RunsInit /\ [][RunsNext]_vars

\* -------------------------------------------------------- calls of the storage

\* A service object on an empty data directory; no test is being generated.
StorageInit ==
    /\ InitialState
    /\ num_questions = 1
    /\ api_key \in {k \in ConstructedKeys : HasApiKey(k)}
    /\ response = None
    /\ extracted = None
    /\ runs = <<>>

\* save_tests: an empty list raises before anything is written; else a file
\* for a new id is written and the index updated.
SaveTests ==
    /\ \E tests \in TestLists, test_name \in TestNames :
         IF tests = <<>>
         THEN UNCHANGED disk
         ELSE \E id \in SetIds :
                /\ id \notin DOMAIN test_set_files
                /\ \A k \in 1..Len(tests_index) : tests_index[k].id # id
                /\ LET test_set == NewTestSet(id, test_name, tests) IN
                     /\ test_set_files' = WriteFile(test_set_files, id, test_set)
                     /\ tests_index' = UpdateTestsIndex(tests_index, test_set)
    /\ UNCHANGED <<state, pc, result, stub, probe, runs, api_key>>

\* update_test_set: nothing without the file; else the file is read, updated,
\* written back under the id it was asked for, and the index updated with it.
UpdateTestSet ==
    /\ \E test_set_id \in SetIds, updated_data \in UpdatedDatas :
         IF test_set_id \in DOMAIN test_set_files
         THEN LET test_set == DictUpdate(test_set_files[test_set_id], updated_data) IN
              /\ test_set_files' = WriteFile(test_set_files, test_set_id, test_set)
              /\ tests_index' = UpdateTestsIndex(tests_index, test_set)
         ELSE UNCHANGED disk
    /\ UNCHANGED <<state, pc, result, stub, probe, runs, api_key>>

\* delete_test_set: the file is unlinked if there is one, and the entries
\* of the id leave the index.
DeleteTestSet ==
    /\ \E test_set_id \in SetIds :
         /\ test_set_files' = Unlink(test_set_files, test_set_id)
         /\ tests_index' = SelectSeq(tests_index, LAMBDA ts : ts.id # test_set_id)
    /\ UNCHANGED <<state, pc, result, stub, probe, runs, api_key>>

StorageNext == SaveTests \/ UpdateTestSet \/ DeleteTestSet

StorageSpec == StorageInit /\ [][StorageNext]_vars

TypeOK ==
    /\ num_questions \in 1..MaxTarget
    /\ pc \in {"generate", "validate", "END", "returned"}
    /\ Len(questions) \in 0..(MaxTarget + 1)
    /\ Len(errors) \in 0..8

\* ------------------------------------------------------------------ claims

Ended == pc \in {"END", "returned"}

QuestionTexts(qs) == [i \in 1..Len(qs) |-> qs[i].question.str]

\* C1 as stated: with a client whose every completion is well-formed and
\* valid, the run ends with num_questions questions and no errors.
C1_ValidStubReachesTarget ==
    <>(~stub_valid
       \/ (pc = "returned"
           /\ Len(result.questions) = num_questions
           /\ result.errors = <<>>))

\* C1, amended: with a client whose every completion is valid and whose
\* question texts differ pairwise when compared case-insensitively, the run
\* ends with exactly num_questions questions and an empty error list.
C1_FreshStubReachesTarget ==
    <>(~stub_fresh
       \/ (pc = "returned"
           /\ Len(result.questions) = num_questions
           /\ result.errors = <<>>))

C1_Witness ==
    /\ pc = "returned"
    /\ stub_fresh
    /\ num_questions >= 3
    /\ Len(result.questions) = num_questions

\* C2: with a client that gives the same valid completion on every call and
\* num_questions > 1, the run ends, and it ends with more than 5 errors.
C2_SameTextEndsOnBudget ==
    <>(~(stub_same /\ num_questions > 1) \/ (Ended /\ Len(errors) > 5))

C4_BudgetEndAtMost6 ==
    (Ended /\ Len(questions) < num_questions) => Len(errors) <= 6

\* C4, amended: a run that ends short of num_questions has 6 or 7 errors.
C4_BudgetEndAtMost7 ==
    (Ended /\ Len(questions) < num_questions) => Len(errors) \in {6, 7}

C4_Witness == Ended /\ Len(questions) < num_questions /\ Len(errors) = 7

\* C5: the run never holds more than num_questions accepted questions.
C5_AcceptedAtMostTarget == Len(questions) <= num_questions

C5_Witness == Ended /\ num_questions >= 2 /\ Len(questions) = num_questions

\* C6 as stated: no two accepted questions have the same text when the
\* texts are compared case-insensitively and without surrounding whitespace.
C6_NoDuplicateIgnoringCaseAndPadding ==
    \A i, j \in 1..Len(questions) :
        i # j => Lower(Strip(questions[i].question.str)) # Lower(Strip(questions[j].question.str))

\* C6, amended: no two accepted questions have the same text when the texts
\* are compared case-insensitively; surrounding whitespace counts.
C6_NoDuplicateIgnoringCase ==
    \A i, j \in 1..Len(questions) :
        i # j => Lower(questions[i].question.str) # Lower(questions[j].question.str)

\* A candidate that differs from the accepted question in case only was
\* rejected as a duplicate.
C6_Witness ==
    /\ pc = "validate"
    /\ current_question # None
    /\ questions # <<>>
    /\ \E i \in 1..Len(questions) :
          /\ questions[i].question # current_question.question
          /\ Lower(questions[i].question.str) = Lower(current_question.question.str)

\* C7: with a client whose every completion is a text extract_json rejects,
\* the run ends with no question and exactly 6 errors.
C7_GarbageEndsWithSixErrors ==
    <>(~stub_garbage
       \/ (pc = "returned"
           /\ result.total_questions = 0
           /\ Len(result.errors) = 6))

C7_Witness ==
    /\ pc = "returned"
    /\ stub_garbage
    /\ result.total_questions = 0
    /\ Len(result.errors) = 6

\* C8: a generate step always leads to validate, whatever failed in it; a
\* validate step leads to END exactly when the accepted questions number
\* at least num_questions or the errors number more than 5, and to generate
\* otherwise.
C8_LoopEndsOnlyByPredicate ==
    [][/\ pc = "generate" => pc' = "validate"
       /\ pc = "validate" =>
            /\ pc' \in {"END", "generate"}
            /\ pc' = "END" <=>
                 (Len(questions') >= num_questions \/ Len(errors') > 5)]_vars

\* The run goes on after cycles that failed.
C8_Witness ==
    /\ pc = "generate"
    /\ Len(errors) = 5
    /\ Len(questions) < num_questions

\* C9: a run that ends on the failure budget returns, and what it returns
\* holds every question accepted in the run: the distinct valid questions
\* the client produced.
C9_PartialResultsReturned ==
    (Ended /\ Len(errors) > 5) =>
        /\ ENABLED Return \/ pc = "returned"
        /\ pc = "returned" =>
             /\ result # None
             /\ QuestionTexts(result.questions) = produced
             /\ result.total_questions = Len(produced)

C9_Witness ==
    /\ pc = "returned"
    /\ Len(result.errors) > 5
    /\ result.total_questions = 2
    /\ num_questions = 3

\* C10: the returned result is the run state at the end: questions is the
\* accepted sequence, in the order the client produced the questions;
\* errors is the errors sequence; total is the number of questions.
C10_ResultIsRunState ==
    pc = "returned" =>
        /\ result.questions = questions
        /\ result.errors = errors
        /\ result.total_questions = Len(result.questions)
        /\ result.technology = technology
        /\ result.difficulty = difficulty
        /\ QuestionTexts(result.questions) = produced

\* Two questions accepted in the order the client gave them, then the
\* failure budget ran out.
C10_Witness ==
    /\ pc = "returned"
    /\ QuestionTexts(result.questions) = <<QOther, QLower>>
    /\ Len(result.errors) = 7

\* ------------------------------------------- claims on the parser and validator

\* The generate node has run on the fixed completion and extract_json
\* returned a value for it.
Generated ==
    /\ response # None
    /\ extracted # None
    /\ extracted.raised = "none"
    /\ pc = "validate"

\* The rules of the validator as the specification lists them.
RulesHold(data) ==
    /\ IsDict(data)
    /\ RequiredFields \subseteq DOMAIN data.dict
    /\ LET d == data.dict IN
       /\ IsStr(d[KQuestion])
       /\ Strip(d[KQuestion].str) # <<>>
       /\ EndsWith(Strip(d[KQuestion].str), "?")
       /\ IsDict(d[KOptions])
       /\ DOMAIN d[KOptions].dict = {<<"a">>, <<"b">>, <<"c">>, <<"d">>}
       /\ d[KCorrectAnswer] \in {PyStr(<<"a">>), PyStr(<<"b">>), PyStr(<<"c">>), PyStr(<<"d">>)}
       /\ IsStr(d[KExplanation])
       /\ Len(Strip(d[KExplanation].str)) >= 10
       /\ KDifficulty \in DOMAIN d =>
            d[KDifficulty] \in {PyStr(<<"Easy">>), PyStr(<<"Medium">>), PyStr(<<"Hard">>)}

\* C11: the candidate extract_json returned passes the validator, and so
\* becomes the current question, if and only if all the rules hold of it;
\* three options, the answer "e" and the explanation "ok" each fail, and an
\* explanation of exactly 10 characters passes.
C11_ValidatorPassesIffRules ==
    Generated =>
        /\ current_question # None <=> RulesHold(extracted.data)
        /\ response.text = ObjectText(QLower, OptionsThreeText, <<"a">>, Explanation10)
             => current_question = None
        /\ response.text = ObjectText(QLower, OptionsFourText, <<"e">>, Explanation10)
             => current_question = None
        /\ response.text = ObjectText(QLower, OptionsFourText, <<"a">>, ExplanationOk)
             => current_question = None
        /\ response.text = ObjectText(QLower, OptionsFourText, <<"a">>, Explanation10)
             => current_question # None

\* An explanation of exactly 10 characters after the trim has passed.
C11_Witness ==
    /\ Generated
    /\ current_question # None
    /\ Len(current_question.answer.explanation.str) = 12
    /\ Len(Strip(current_question.answer.explanation.str)) = 10

\* C12: every accepted question has options whose four values are each a
\* non-empty string.
C12_OptionValuesNonEmpty ==
    \A i \in 1..Len(questions) :
        /\ IsDict(questions[i].options)
        /\ \A k \in DOMAIN questions[i].options.dict :
              /\ IsStr(questions[i].options.dict[k])
              /\ questions[i].options.dict[k].str # <<>>

\* The characters of s that are not whitespace.
NonWhitespace(s) == SelectSeq(s, LAMBDA c : c \notin Whitespace)

\* C13 as stated: every accepted question has an explanation with at least
\* 10 characters that are not whitespace.
C13_ExplanationTenNonWhitespace ==
    \A i \in 1..Len(questions) :
        /\ IsStr(questions[i].answer.explanation)
        /\ Len(NonWhitespace(questions[i].answer.explanation.str)) >= 10

\* C13, amended: every accepted question has an explanation that is a string
\* of at least 10 characters once leading and trailing whitespace is
\* removed; whitespace inside the explanation counts.
C13_ExplanationTenTrimmed ==
    \A i \in 1..Len(questions) :
        /\ IsStr(questions[i].answer.explanation)
        /\ Len(Strip(questions[i].answer.explanation.str)) >= 10

\* An explanation of 10 characters, one of them a space, was accepted.
C13_Witness ==
    /\ questions # <<>>
    /\ response # None
    /\ questions[1].answer.explanation.str = Explanation10
    /\ Len(NonWhitespace(questions[1].answer.explanation.str)) = 9

\* C14: every accepted question has a text that is not empty and ends with
\* "?" once trimmed, options whose keys are exactly a, b, c, d, and a correct
\* key that is one of a, b, c, d and a key of its options.
C14_AcceptedQuestionShape ==
    \A i \in 1..Len(questions) :
        LET q == questions[i] IN
        /\ IsStr(q.question)
        /\ Strip(q.question.str) # <<>>
        /\ EndsWith(Strip(q.question.str), "?")
        /\ IsDict(q.options)
        /\ DOMAIN q.options.dict = {<<"a">>, <<"b">>, <<"c">>, <<"d">>}
        /\ IsStr(q.answer.answer)
        /\ q.answer.answer.str \in {<<"a">>, <<"b">>, <<"c">>, <<"d">>}
        /\ q.answer.answer.str \in DOMAIN q.options.dict

\* A question whose text ends with "?" only once trimmed, with the answer d,
\* was accepted.
C14_Witness ==
    /\ questions # <<>>
    /\ response # None
    /\ questions[1].question.str = QTrailing
    /\ questions[1].answer.answer.str = <<"d">>

\* The extraction policy as the specification states it, on the text
\* without its code fences: the value of the first tier that succeeds, or a
\* failure if none does.
WrapApplies(toks) ==
    /\ Positions(toks, Quoted(KQuestion)) # {}
    /\ ~(toks # <<>> /\ toks[1] = Sym("{"))

WrapText(toks) == <<Sym("{")>> \o StripCommas(toks) \o <<Sym("}")>>

FirstSuccess(toks) ==
    IF HasBraceMatch(toks) /\ JsonLoads(BraceMatch(toks)).ok
    THEN Returned(JsonLoads(BraceMatch(toks)).val)
    ELSE IF WrapApplies(toks) /\ JsonLoads(WrapText(toks)).ok
    THEN Returned(JsonLoads(WrapText(toks)).val)
    ELSE IF DOMAIN LineByLine(toks) = RequiredFields
    THEN Returned(PyDict(LineByLine(toks)))
    ELSE IF JsonLoads(toks).ok
    THEN Returned(JsonLoads(toks).val)
    ELSE Raised("ParseError")

\* C15: extract_json returns what the first succeeding tier returns, the
\* later tiers being tried when an earlier one does not succeed, and it
\* fails only if every tier fails.
C15_FirstSuccessWins ==
    (response # None /\ extracted # None) =>
        LET want == FirstSuccess(RemoveFences(StripText(response.text))) IN
        /\ extracted.raised = "none" <=> want.raised = "none"
        /\ extracted.raised = "none" => extracted.data = want.data

\* The entries of errors that generate_single_question records when
\* extract_json raises.
IsParseFailure(e) ==
    e.msg \in {"Failed to parse LLM response as JSON",
               "Unexpected error during JSON extraction"}

\* C16: every error entry recorded for a parse failure carries at most a
\* prefix of 200 characters of the raw completion text.
C16_ParseErrorHoldsExcerpt ==
    \A i \in 1..Len(errors) :
        IsParseFailure(errors[i]) =>
            /\ Len(errors[i].excerpt) <= ExcerptLength
            /\ Len(TextChars(errors[i].raw)) <= ExcerptLength

\* The JSON text of an options mapping with string values, the keys in
\* alphabetical order and a comma and a space between the members.
OptionKeyOrder == <<(<<"a">>), (<<"b">>), (<<"c">>), (<<"d">>), (<<"e">>)>>

RECURSIVE DumpMembers(_, _, _)
DumpMembers(d, i, first) ==
    IF i > Len(OptionKeyOrder) THEN <<>>
    ELSE IF OptionKeyOrder[i] \in DOMAIN d
    THEN (IF first THEN <<>> ELSE <<Sym(","), SP>>)
         \o Member(OptionKeyOrder[i], d[OptionKeyOrder[i]].str)
         \o DumpMembers(d, i + 1, FALSE)
    ELSE DumpMembers(d, i + 1, first)

DumpOptions(d) == <<Sym("{")>> \o DumpMembers(d, 1, TRUE) \o <<Sym("}")>>

\* A value of the required shape: the four members, the options a mapping
\* from some of a..e to strings, the rest strings.
IsShaped(data) ==
    /\ IsDict(data)
    /\ DOMAIN data.dict = RequiredFields
    /\ IsStr(data.dict[KQuestion])
    /\ IsStr(data.dict[KCorrectAnswer])
    /\ IsStr(data.dict[KExplanation])
    /\ IsDict(data.dict[KOptions])
    /\ \A k \in DOMAIN data.dict[KOptions].dict :
          /\ \E i \in 1..Len(OptionKeyOrder) : OptionKeyOrder[i] = k
          /\ IsStr(data.dict[KOptions].dict[k])

\* The JSON text of a value of the required shape, one member to a line.
DumpObject(data) ==
    ObjectText(data.dict[KQuestion].str, DumpOptions(data.dict[KOptions].dict),
               data.dict[KCorrectAnswer].str, data.dict[KExplanation].str)

\* The completions that are exact JSON of the required shape.
ExactTexts ==
    {ObjectText(q, o, a, e) :
        q \in QuestionChoices,
        o \in {OptionsFourText, OptionsThreeText, OptionsFiveText, OptionsEmptyValueText},
        a \in AnswerChoices, e \in ExplanationChoices}

\* The question that carries the fields of `data` unchanged.
Carried(data) ==
    [question |-> data.dict[KQuestion],
     options |-> data.dict[KOptions],
     answer |-> [answer |-> data.dict[KCorrectAnswer],
                 explanation |-> data.dict[KExplanation]]]

\* C17: for a completion that is exact JSON of the required shape,
\* extract_json returns the value that text is the JSON of, field for field,
\* and the current question and every accepted question carry its fields
\* unchanged.
C17_FieldFidelity ==
    (response # None /\ extracted # None /\ response.text \in ExactTexts) =>
        /\ extracted.raised = "none"
        /\ IsShaped(extracted.data)
        /\ DumpObject(extracted.data) = response.text
        /\ current_question # None => current_question = Carried(extracted.data)
        /\ \A i \in 1..Len(questions) : questions[i] = Carried(extracted.data)

\* A question with whitespace at the end of its text and around its
\* explanation was accepted as it was written.
C17_Witness ==
    /\ response # None
    /\ response.text = ObjectText(QTrailing, OptionsEmptyValueText, <<"d">>, ExplanationPadded10)
    /\ questions # <<>>
    /\ questions[1].question.str = QTrailing
    /\ questions[1].options.dict[<<"a">>].str = <<>>
    /\ questions[1].answer.explanation.str = ExplanationPadded10

\* C18 as stated: for a completion in a code block with prose before the
\* opening marker, extract_json gives what it gives for the completion alone.
C18_WrappingIgnored ==
    (response # None /\ extracted # None) =>
        \A p \in Proses, t \in WrappableTexts :
            response.text = Wrapped(p, t) => extracted = ExtractJson(StripText(t))

HasBrace(toks) == Positions(toks, Sym("{")) \cup Positions(toks, Sym("}")) # {}

\* C18, amended: for a completion that holds a brace-delimited JSON text, put
\* in a code block with prose before the opening marker that holds no
\* brace, extract_json gives what it gives for the completion alone.
C18_WrappingIgnoredAroundBraces ==
    (response # None /\ extracted # None) =>
        \A p \in Proses, t \in WrappableTexts :
            (response.text = Wrapped(p, t) /\ ~HasBrace(p) /\ HasBraceMatch(t))
                => extracted = ExtractJson(StripText(t))

\* The object was recovered from inside the code block.
C18_Witness ==
    /\ response # None
    /\ extracted # None
    /\ \E p \in Proses :
          response.text = Wrapped(p, ObjectText(QLower, OptionsFourText, <<"a">>, Explanation10))
    /\ extracted.raised = "none"
    /\ current_question # None
    /\ current_question.question.str = QLower

\* ------------------------------------------------- claims on calls side by side

SameRequest(a, b) ==
    /\ a.technology = b.technology
    /\ a.difficulty = b.difficulty
    /\ a.num_questions = b.num_questions

SameLayer(a, b) ==
    \/ {a.shape, b.shape} \subseteq WorkflowShapes
    \/ {a.shape, b.shape} \subseteq ServiceShapes

RECURSIVE AloneAfter(_)
AloneAfter(outs) ==
    IF outs = <<>> THEN [questions |-> <<>>, errors |-> <<>>]
    ELSE LET before == AloneAfter(SubSeq(outs, 1, Len(outs) - 1))
             g == GenerateSingleQuestion(outs[Len(outs)], before.errors)
             v == ValidateAndAddQuestion(g.current_question, before.questions, g.errors)
         IN  [questions |-> v.questions, errors |-> v.errors]

\* Call st is where a call alone is after the same outcomes.
AsAlone(st) ==
    IF st.pc = "validate"
    THEN LET before == AloneAfter(SubSeq(st.outcomes, 1, Len(st.outcomes) - 1))
             g == GenerateSingleQuestion(st.outcomes[Len(st.outcomes)], before.errors)
         IN  /\ st.questions = before.questions
             /\ st.errors = g.errors
             /\ st.current_question = g.current_question
    ELSE LET alone == AloneAfter(st.outcomes) IN
         /\ st.questions = alone.questions
         /\ st.errors = alone.errors
         /\ st.current_question = None
         /\ st.pc = "returned" =>
              st.result = Returns(st.shape, st.technology, st.difficulty,
                                  alone.questions, alone.errors)

\* C20: a step of one call leaves the state of the other call as it is, and
\* every call is, and returns, what a call alone is and returns after the
\* same LLM outcomes.
C20_RunsIsolated ==
    /\ [][\E r \in RunIds : \A o \in RunIds \ {r} : runs'[o] = runs[o]]_vars
    /\ [](\A r \in RunIds : AsAlone(runs[r]))

\* Both calls are between their generate and validate nodes, one with a
\* candidate and one with a failure.
C20_Witness ==
    /\ runs # <<>>
    /\ runs["r1"].pc = "validate"
    /\ runs["r2"].pc = "validate"
    /\ Len(runs["r1"].questions) = 1
    /\ runs["r1"].current_question # None
    /\ runs["r2"].current_question = None
    /\ Len(runs["r2"].errors) = 3





\* C21: the run starts at generate; every generate step, failed or not, is
\* followed by validate; every validate step is followed by generate or by
\* END; once the graph has ended no node runs, so the state stays as it is.
C21_TwoNodeGraph ==
    /\ pc = "generate"
    /\ [][/\ pc = "generate" => pc' = "validate"
          /\ pc = "validate" => pc' \in {"generate", "END"}
          /\ pc = "END" => pc' = "returned" /\ state' = state
          /\ pc = "returned" => pc' = "returned" /\ state' = state]_vars

\* A run that went round the loop, with failed generate steps among its
\* steps, has ended and returned.
C21_Witness ==
    /\ pc = "returned"
    /\ Len(result.questions) = 1
    /\ Len(result.errors) = 6

\* The messages the generate node records for a failed LLM call and for a
\* failed extract_json.
ClientFailureMessages == {"Error generating question"}
ParserFailureMessages ==
    {"Failed to parse LLM response as JSON", "Unexpected error during JSON extraction"}

RepeatsAccepted(cur, qs) ==
    \E i \in 1..Len(qs) : Lower(qs[i].question.str) = Lower(cur.question.str)

\* C23: questions changes in the validate step alone.  With a candidate that
\* repeats an accepted question text case-insensitively the step appends
\* "Duplicate question detected" and leaves questions as it is; with another
\* candidate it appends that candidate at the end of questions and no
\* error; with no candidate it appends "No valid question to add" and leaves
\* questions as it is; afterwards there is no candidate.
C23_ValidateAloneChangesAccepted ==
    [][/\ pc # "validate" => questions' = questions
       /\ pc = "validate" =>
            /\ current_question' = None
            /\ IF current_question = None
               THEN /\ questions' = questions
                    /\ errors' = Append(errors, Error("No valid question to add"))
               ELSE IF RepeatsAccepted(current_question, questions)
               THEN /\ questions' = questions
                    /\ errors' = Append(errors, Error("Duplicate question detected"))
               ELSE /\ questions' = Append(questions, current_question)
                    /\ errors' = errors]_vars

\* Two candidates were accepted and then a
\* duplicate was dropped.
C23_Witness ==
    /\ pc = "generate"
    /\ Len(questions) = 2
    /\ errors = <<Error("Duplicate question detected")>>
    /\ current_question = None

\* The value v stands in the text at the field: it is the JSON value that
\* follows "<field>": somewhere in the text, or the characters that follow
\* it up to the end of the line, without a trailing comma and without the
\* quotes around them.
ReadAtField(toks, field, v) ==
    \E i \in FieldMatches(toks, field) :
        \/ ParseValue(toks, i).ok /\ ParseValue(toks, i).val = v
        \/ LET from == SkipWs(toks, i)
               rest == RStripCommas(StripText(SubSeq(toks, from, LineEnd(toks, from))))
           IN  v = PyStr(Unquote(rest))

\* C24: in every candidate extract_json returns, the question, the
\* correct_answer, the explanation and every other member is a value read
\* from the completion text at that field; the one exception is an options
\* value of four empty strings under the keys a, b, c and d, which is made
\* up only by the line-by-line tier and only where the text after "options":
\* does not decode.
C24_NoFabricatedAnswer ==
    (response # None /\ extracted # None /\ extracted.raised = "none"
        /\ IsDict(extracted.data)) =>
    LET toks == response.text
        inner == RemoveFences(StripText(toks))
        d == extracted.data.dict
    IN  \A f \in DOMAIN d :
            \/ ReadAtField(toks, f, d[f])
            \/ /\ f = KOptions
               /\ d[f] = PyDict([k \in OptionKeys |-> PyStr(<<>>)])
               /\ ~HasBraceMatch(inner)
               /\ ~WrapApplies(inner)
               /\ ~JsonLoads(FieldValue(inner, KOptions)).ok

\* extract_json returned a candidate whose options are made up and whose
\* answer is the one of the text.
C24_Witness ==
    /\ response # None /\ extracted # None /\ extracted.raised = "none"
    /\ IsDict(extracted.data)
    /\ DOMAIN extracted.data.dict = RequiredFields
    /\ ~ReadAtField(response.text, KOptions, extracted.data.dict[KOptions])
    /\ extracted.data.dict[KOptions] = PyDict(EmptyOptions)
    /\ extracted.data.dict[KCorrectAnswer] = PyStr(<<"a">>)
    /\ ReadAtField(response.text, KCorrectAnswer, PyStr(<<"a">>))

\* C25: on every value extract_json returns the validator returns pass or
\* fail and does not raise, and a value that does not pass is recorded with
\* "Invalid question format received from LLM" and leaves no candidate;
\* values that are not objects and candidates whose question or explanation
\* is not a string are among them.
C25_ValidatorTotal ==
    Generated =>
        /\ ValidateQuestionData(extracted.data) \in {"pass", "fail"}
        /\ ValidateQuestionData(extracted.data) # "pass" =>
              /\ current_question = None
              /\ errors # <<>>
              /\ errors[Len(errors)] = Error("Invalid question format received from LLM")

\* The three outcomes of a result for a target.
Outcome(res, n) ==
    IF res.total_questions = 0 THEN "total failure"
    ELSE IF res.total_questions < n THEN "partial success"
    ELSE "full success"

\* What the page shows for the result of a call.
Shown(res) ==
    ShowTestGenerationPage(
        ServiceGenerateTest(res.technology, res.difficulty, res.questions, res.errors))

\* C26: the page treats the three outcomes differently: what it shows for a
\* result differs from what it shows for a result of another outcome, here
\* the full success with the same questions and the total failure with the
\* same errors.
C26_OutcomesShownApart ==
    pc = "returned" =>
        LET full == TestResult(technology, difficulty, result.questions, <<>>)
            failure == TestResult(technology, difficulty, <<>>, result.errors)
        IN  /\ Outcome(result, num_questions) # "full success"
                 /\ result.questions # <<>> =>
                    Shown(result) # Shown(full)
            /\ Outcome(result, num_questions) # "total failure" =>
                    Shown(result) # Shown(failure)

\* C27: with no key configured the failure shows once, when the workflow
\* object is made: no generate step runs and no LLM call is made, so the run
\* stays as generate_test built it and no error of a cycle is recorded.
C27_NoKeyFailsAtConstruction ==
    ~HasApiKey(api_key) =>
        /\ pc = "generate"
        /\ errors = <<>>
        /\ result = None

\* C28: a run that has ended with at least num_questions questions
\* (num_questions > 0) has no errors: the candidate accepted last was valid,
\* so the generate step before had emptied errors, whatever earlier cycles
\* had logged.
C28_TargetEndHasNoErrors ==
    (Ended /\ num_questions > 0 /\ Len(questions) >= num_questions) =>
        /\ errors = <<>>
        /\ pc = "returned" => result.errors = <<>>

\* A run has returned all the questions asked for and no errors, though the
\* client did not give valid completions only.
C28_Witness ==
    /\ pc = "returned"
    /\ num_questions = 2
    /\ result.total_questions = 2
    /\ result.errors = <<>>
    /\ ~stub_valid

\* The messages a failed generate step records.
GenerateFailureMessages ==
    ClientFailureMessages \cup ParserFailureMessages
    \cup {"Invalid question format received from LLM"}

\* errors holds what failing cycles alone leave behind, from an empty list
\* on: the error of a failed generate step, then "No valid question to add",
\* in turn.
FailingCyclesOnly(errs) ==
    \A i \in 1..Len(errs) :
        IF i % 2 = 1 THEN errs[i].msg \in GenerateFailureMessages
        ELSE errs[i] = Error("No valid question to add")

\* C29: a cycle whose generate step fails adds exactly two errors, one in
\* generate and "No valid question to add" in validate; so from an empty
\* errors list on, failing cycles end the run after exactly three of them,
\* that is after three LLM calls: the run goes on with 2 and with 4 errors
\* and has ended with 6.
C29_ThreeFailingCyclesEndRun ==
    /\ [][/\ (pc = "generate" /\ pc' # "generate" /\ current_question' = None) =>
               /\ Len(errors') = Len(errors) + 1
               /\ SubSeq(errors', 1, Len(errors)) = errors
               /\ errors'[Len(errors')].msg \in GenerateFailureMessages
          /\ (pc = "validate" /\ pc' # "validate" /\ current_question = None) =>
               errors' = Append(errors, Error("No valid question to add"))]_vars
    /\ [](FailingCyclesOnly(errors) =>
            /\ pc = "generate" => Len(errors) \in {0, 2, 4}
            /\ (pc = "validate" /\ current_question = None) => Len(errors) \in {1, 3, 5}
            /\ (Ended /\ errors # <<>>) => Len(errors) = 6)

\* After an accepted question three failing cycles have ended the run.
C29_Witness ==
    /\ pc = "returned"
    /\ Len(result.questions) = 1
    /\ Len(result.errors) = 6
    /\ FailingCyclesOnly(result.errors)
    /\ {result.errors[i].msg : i \in {1, 3, 5}} = GenerateFailureMessages \ {"Error generating question"}

\* C30: after any calls of save_tests, update_test_set and delete_test_set
\* the index holds at most one entry for an id, it holds an entry for an id
\* exactly when the file of that id exists, and the entry is the content of
\* that file.
C30_IndexMatchesFiles ==
    /\ \A i, j \in 1..Len(tests_index) :
          tests_index[i].id = tests_index[j].id => i = j
    /\ \A id \in SetIds :
          (\E k \in 1..Len(tests_index) : tests_index[k].id = id)
            <=> id \in DOMAIN test_set_files
    /\ \A k \in 1..Len(tests_index) :
          tests_index[k].id \in DOMAIN test_set_files
            => tests_index[k] = test_set_files[tests_index[k].id]

====
